---- MODULE Spec2Model ----
(***************************************************************************)
(* Model of the c-ray library API (src/src/lib/api/c-ray.c): the renderer  *)
(* run state, the pause / acknowledge protocol, the interactive restart,   *)
(* the preference setters, and the scene API with its background BVH       *)
(* build tasks.  The render workers and the renderer's own thread live in  *)
(* renderer.c, which is not among the sources at hand; they are modelled   *)
(* from the design document (sections 4.3, 4.4, 4.5 and 5).                *)
(*                                                                         *)
(* Threads of the model: the API caller (ctrl), the render workers, the    *)
(* renderer's own thread (Main), and the background pool running           *)
(* bvh_build_task.                                                         *)
(***************************************************************************)
EXTENDS Integers, Sequences, FiniteSets, TLC

\* ------------------------------------------------------------------ bounds
MaxThreads   == 2    \* largest thread preference the caller sets
MaxClients   == 1    \* most network workers clients_sync() reports
MaxRes       == 2    \* camera width and height range over 1..MaxRes (in tiles)
MaxSamples   == 1    \* per-worker sample counter saturates here
MaxCameras   == 1    \* cameras created by cr_camera_new
MaxMeshes    == 1    \* meshes created by cr_scene_mesh_new
MaxInstances == 1    \* instances created by cr_instance_new
MaxSets      == 1    \* material sets created by cr_scene_new_material_set
MaxMats      == 1    \* materials added to one set
MaxPolys     == 1    \* faces bound to one mesh
MaxBuilds    == 2    \* cr_mesh_finalize calls (each enqueues one build task)
MaxReaders   == 1    \* threads traversing a mesh BVH under the read lock
SizeBits     == 16   \* width the model gives size_t / uint64_t (64 in the build)

\* ------------------------------------------------------- program constants
MaxBounces == 512    \* hard cap on the bounce preference

SizeMod == 2 ^ SizeBits

\* (size_t) conversion of a signed value
ToSize(x) == x % SizeMod

VARIABLES
    prefs,           \* r->prefs
    state_s,         \* r->state.s
    clients,         \* r->state.clients.count
    workers,         \* r->state.workers
    result_buf,      \* r->state.result_buf
    current_set,     \* r->state.current_set
    tile_mutex,      \* holder of current_set->tile_mutex
    main_active,     \* the renderer's own thread is running a render
    cameras,         \* scene->cameras
    top_level_dirty, \* scene->top_level_dirty
    meshes,          \* scene->meshes
    bvh_lock,        \* scene->bvh_lock: the writer, the readers (each with the BVH it traverses)
    tasks,           \* bvh_build_task instances queued or running on scene->bg_worker
    heap,            \* the BVHs allocated so far: live, destroyed, number of finalize calls
    instances,       \* scene->instances
    shader_buffers,  \* scene->shader_buffers
    ctrl,            \* the API caller: where it is inside the call in progress, its locals
    ret              \* what the last value-returning API call returned

\* the renderer's run-time state
rstate == <<state_s, clients, workers, result_buf, current_set, tile_mutex, main_active>>
\* meshes and their BVH builds
mstate == <<meshes, bvh_lock, tasks, heap>>
\* the rest of the scene
sstate == <<cameras, top_level_dirty, instances, shader_buffers>>

vars == <<prefs, rstate, mstate, sstate, ctrl, ret>>

NULL == [null |-> TRUE]

Idle == [pc |-> "idle"]

\* the process died on an access outside an array
Crashed == [pc |-> "crashed"]

Running == ctrl.pc # "crashed"
CtrlIdle == ctrl.pc = "idle"

\* where the caller is after a step: an access outside an array (`oob`) either goes
\* unnoticed, and the call goes on to `next`, or ends the process
AfterAccess(oob, next) == IF oob THEN {next, Crashed} ELSE {next}

Min(a, b) == IF a < b THEN a ELSE b
CeilDiv(a, b) == (a + b - 1) \div b

\* struct camera default_camera (resolution in tile units)
default_camera == [width |-> 1, height |-> 1, FOV |-> 80]

InitPrefs ==
    [threads |-> 0, sampleCount |-> 1, bounces |-> 1, tileWidth |-> 1, tileHeight |-> 1,
     override_width |-> 0, override_height |-> 0, selected_camera |-> 0,
     iterative |-> FALSE, blender_mode |-> 0, node_list |-> FALSE]

\* renderer_new(): an idle renderer with an empty scene
Init ==
    /\ prefs \in {[InitPrefs EXCEPT !.threads = t] : t \in 0..MaxThreads}
    /\ state_s = "idle"
    /\ clients = 0
    /\ workers = <<>>
    /\ result_buf = NULL
    /\ current_set = NULL
    /\ tile_mutex = "free"
    /\ main_active = FALSE
    /\ cameras = <<>>
    /\ top_level_dirty = FALSE
    /\ meshes = <<>>
    /\ bvh_lock = [writer |-> 0, readers |-> {}]
    /\ tasks = {}
    /\ heap = [live |-> {}, destroyed |-> {}, builds |-> 0]
    /\ instances = <<>>
    /\ shader_buffers = <<>>
    /\ ctrl = Idle
    /\ ret = [op |-> "none"]

\* ------------------------------------------------------------ preferences
\* values handed to the numeric setters (uint64_t)
NumValues == {0, 1, MaxBounces, MaxBounces + 1, SizeMod - 1}

NumParams ==
    {"threads", "samples", "bounces", "tile_width", "tile_height", "override_width",
     "override_height", "override_cam", "is_iterative", "blender_mode"}

\* enum cr_renderer_param
RendererParams == NumParams \cup {"tile_order", "asset_path", "node_list"}

\* the bounce cap test of cr_renderer_set_num_pref: true when num is rejected
BouncesRejected_off_by_one(num) == num >= MaxBounces
BouncesRejected(num) == num > MaxBounces

\* the camera override test of cr_renderer_set_num_pref: true when num is rejected
OverrideCamRejected(num) == Len(cameras) = 0 \/ num >= Len(cameras)

\* the preferences after cr_renderer_set_num_pref(p, num) (unchanged when rejected)
set_num_pref_prefs(p, num) ==
    CASE p = "threads"         -> [prefs EXCEPT !.threads = num]
      [] p = "samples"         -> [prefs EXCEPT !.sampleCount = num]
      [] p = "bounces"         -> IF BouncesRejected(num) THEN prefs
                                  ELSE [prefs EXCEPT !.bounces = num]
      [] p = "tile_width"      -> [prefs EXCEPT !.tileWidth = num]
      [] p = "tile_height"     -> [prefs EXCEPT !.tileHeight = num]
      [] p = "override_width"  -> [prefs EXCEPT !.override_width = num]
      [] p = "override_height" -> [prefs EXCEPT !.override_height = num]
      [] p = "override_cam"    -> IF OverrideCamRejected(num) THEN prefs
                                  ELSE [prefs EXCEPT !.selected_camera = num]
      [] p = "is_iterative"    -> [prefs EXCEPT !.iterative = TRUE]
      [] p = "blender_mode"    -> [prefs EXCEPT !.blender_mode = num]
      [] OTHER                 -> prefs

\* the value cr_renderer_set_num_pref(p, num) returns (1 = true, 0 = false)
set_num_pref_ret(p, num) ==
    CASE p = "bounces"      -> IF BouncesRejected(num) THEN 0 ELSE 1
      [] p = "override_cam" -> IF OverrideCamRejected(num) THEN 0 ELSE 1
      [] p \in NumParams    -> 1
      [] OTHER              -> 0

cr_renderer_set_num_pref(p, num) ==
    /\ CtrlIdle
    /\ prefs' = set_num_pref_prefs(p, num)
    /\ ret' = [op |-> "set_num_pref", p |-> p, val |-> set_num_pref_ret(p, num)]
    /\ UNCHANGED <<rstate, mstate, sstate, ctrl>>

\* cr_renderer_set_str_pref(cr_renderer_node_list, str): a node list is configured
cr_renderer_set_str_pref_node_list ==
    /\ CtrlIdle
    /\ prefs' = [prefs EXCEPT !.node_list = TRUE]
    /\ UNCHANGED <<rstate, mstate, sstate, ctrl, ret>>

\* ---------------------------------------------------------------- helpers
WorkerIdx == 1..Len(workers)
Camera(c) == cameras[c + 1]              \* cameras.items[c], c counted from 0
AllExited == \A i \in WorkerIdx : workers[i].pc = "exited"

\* a freshly created worker record (net: a network worker)
NewWorker(isnet) ==
    [paused |-> FALSE, in_pause_loop |-> FALSE, totalSamples |-> 0,
     pc |-> "run", tile |-> 0, net |-> isnet]

\* tex_new(float_p, w, h, 4)
tex_new(w, h) == [width |-> w, height |-> h, live |-> TRUE]

\* tile_quantize(): one ready tile per tileWidth x tileHeight cell of the image
tile_quantize(w, h, tw, th) ==
    [i \in 1..(CeilDiv(w, tw) * CeilDiv(h, th)) |-> "ready"]

\* the tile set for camera `cam`
NewTileSet(cam) ==
    [tiles |-> tile_quantize(cam.width, cam.height, prefs.tileWidth, prefs.tileHeight),
     finished |-> 0]

\* all tiles of the pass are done (the completion counter reached the tile count)
PassComplete ==
    \/ current_set.finished >= Len(current_set.tiles)
    \/ \A t \in 1..Len(current_set.tiles) : current_set.tiles[t] = "finished"

ReadyTiles == {t \in 1..Len(current_set.tiles) : current_set.tiles[t] = "ready"}
FirstReady == CHOOSE t \in ReadyTiles : \A u \in ReadyTiles : t <= u

\* ------------------------------------- renderer.c, modelled from the design
\* renderer_start_interactive(): allocate the result buffer and the tile set for the
\* selected camera, create one worker per local thread, rebuild the top-level index
\* and enter `rendering`
renderer_start_interactive ==
    /\ ~main_active
    /\ prefs.selected_camera < Len(cameras)
    /\ LET cam == Camera(prefs.selected_camera) IN
         /\ result_buf' = tex_new(cam.width, cam.height)
         /\ current_set' = NewTileSet(cam)
    /\ workers' = [i \in 1..prefs.threads |-> NewWorker(FALSE)]
    /\ state_s' = "rendering"
    /\ main_active' = TRUE
    /\ top_level_dirty' = FALSE
    /\ tile_mutex' = "free"

\* renderer_render(): the same for a one-shot render, with one more worker per
\* connected network client, placed after the local threads
renderer_render ==
    /\ ~main_active
    /\ prefs.selected_camera < Len(cameras)
    /\ LET cam == Camera(prefs.selected_camera) IN
         /\ result_buf' = tex_new(cam.width, cam.height)
         /\ current_set' = NewTileSet(cam)
    /\ workers' = [i \in 1..(prefs.threads + clients') |-> NewWorker(i > prefs.threads)]
    /\ state_s' = "rendering"
    /\ main_active' = TRUE
    /\ top_level_dirty' = FALSE
    /\ tile_mutex' = "free"

\* a worker at its loop head: leave when the run state left `rendering`, park when
\* its pause flag is set (local threads only), otherwise claim the next ready tile
\* under the tile-set lock; a one-shot worker leaves when the pass is exhausted
WorkerRun(i) ==
    /\ Running
    /\ i \in WorkerIdx
    /\ workers[i].pc = "run"
    /\ IF state_s # "rendering"
       THEN /\ workers' = [workers EXCEPT ![i].pc = "exited"]
            /\ UNCHANGED current_set
       ELSE IF ~workers[i].net /\ workers[i].paused
       THEN /\ workers' = [workers EXCEPT ![i].in_pause_loop = TRUE, ![i].pc = "parked"]
            /\ UNCHANGED current_set
       ELSE IF ReadyTiles # {}
       THEN /\ tile_mutex = "free"
            /\ current_set' = [current_set EXCEPT !.tiles[FirstReady] = "rendering"]
            /\ workers' = [workers EXCEPT ![i].tile = FirstReady, ![i].pc = "sampling"]
       ELSE /\ ~prefs.iterative
            /\ workers' = [workers EXCEPT ![i].pc = "exited"]
            /\ UNCHANGED current_set
    /\ UNCHANGED <<prefs, state_s, clients, result_buf, tile_mutex, main_active,
                   mstate, sstate, ctrl, ret>>

\* a worker holding a tile (pc "sampling") writes samples into the result buffer at the
\* tile's coordinates; when done it counts them, marks the tile finished and bumps the
\* completion counter under the tile-set lock
WorkerComplete(i) ==
    /\ Running
    /\ i \in WorkerIdx
    /\ workers[i].pc = "sampling"
    /\ tile_mutex = "free"
    /\ current_set' =
         [current_set EXCEPT
            !.tiles = IF workers[i].tile \in 1..Len(current_set.tiles)
                      THEN [current_set.tiles EXCEPT ![workers[i].tile] = "finished"]
                      ELSE current_set.tiles,
            !.finished = Min(current_set.finished + 1,
                             Len(current_set.tiles) + Len(workers))]
    /\ workers' = [workers EXCEPT
                     ![i].totalSamples = Min(workers[i].totalSamples + 1, MaxSamples),
                     ![i].tile = 0, ![i].pc = "run"]
    /\ UNCHANGED <<prefs, state_s, clients, result_buf, tile_mutex, main_active,
                   mstate, sstate, ctrl, ret>>

\* a parked worker resumes once its pause flag clears (or the render is over): it
\* clears its acknowledgement flag and goes back to the loop head
WorkerResume(i) ==
    /\ Running
    /\ i \in WorkerIdx
    /\ workers[i].pc = "parked"
    /\ ~workers[i].paused \/ state_s # "rendering"
    /\ workers' = [workers EXCEPT ![i].in_pause_loop = FALSE, ![i].pc = "run"]
    /\ UNCHANGED <<prefs, state_s, clients, result_buf, current_set, tile_mutex,
                   main_active, mstate, sstate, ctrl, ret>>

\* interactive mode: the renderer's thread starts the next pass over the same tiles
MainNextPass ==
    /\ Running
    /\ main_active /\ state_s = "rendering" /\ prefs.iterative
    /\ tile_mutex = "free"
    /\ PassComplete
    /\ \A i \in WorkerIdx : workers[i].tile = 0
    /\ current_set' = [tiles |-> [t \in 1..Len(current_set.tiles) |-> "ready"],
                       finished |-> 0]
    /\ UNCHANGED <<prefs, state_s, clients, workers, result_buf, tile_mutex,
                   main_active, mstate, sstate, ctrl, ret>>

\* one-shot mode: the pass is complete and every worker has left
MainFinish ==
    /\ Running
    /\ main_active /\ state_s = "rendering" /\ ~prefs.iterative
    /\ PassComplete /\ AllExited
    /\ state_s' = "finished"
    /\ main_active' = FALSE
    /\ UNCHANGED <<prefs, clients, workers, result_buf, current_set, tile_mutex,
                   mstate, sstate, ctrl, ret>>

\* a requested stop took effect: every worker has left, the state leaves `exiting`
MainStopped ==
    /\ Running
    /\ main_active /\ state_s = "exiting"
    /\ AllExited
    /\ state_s' = "finished"
    /\ main_active' = FALSE
    /\ UNCHANGED <<prefs, clients, workers, result_buf, current_set, tile_mutex,
                   mstate, sstate, ctrl, ret>>

\* ------------------------------------------------------- c-ray.c: renderer
\* no bvh_build_task is queued or running: thread_pool_wait(bg_worker) returns
PoolIdle == tasks = {}

\* number of worker entries cr_renderer_toggle_pause flips (c-ray.c:171)
ToggleCount == prefs.threads

\* the loop of cr_renderer_toggle_pause over the first n entries of the worker array ws
\* (c-ray.c:171-175)
toggle_paused_sets(ws, n) ==
    [i \in 1..Len(ws) |-> IF i <= n THEN [ws[i] EXCEPT !.paused = TRUE] ELSE ws[i]]
toggle_paused(ws, n) ==
    [i \in 1..Len(ws) |-> IF i <= n THEN [ws[i] EXCEPT !.paused = ~ws[i].paused] ELSE ws[i]]

\* r->state.workers after cr_renderer_toggle_pause
toggle_workers == toggle_paused(workers, ToggleCount)

\* the indices below ToggleCount reach past the end of the worker array
toggle_out_of_bounds == ToggleCount > Len(workers)

cr_renderer_toggle_pause ==
    /\ CtrlIdle
    /\ workers' = toggle_workers
    /\ ctrl' \in AfterAccess(toggle_out_of_bounds, Idle)
    /\ UNCHANGED <<prefs, state_s, clients, result_buf, current_set, tile_mutex,
                   main_active, mstate, sstate, ret>>

\* the test of cr_renderer_render for "nothing to render with" (c-ray.c:829)
NothingToRenderWith_never(nclients) == FALSE
NothingToRenderWith(nclients) == nclients = 0 /\ prefs.threads = 0

\* cr_renderer_render: sync the network clients when a node list is set, return when
\* there is nothing to render with, otherwise hand over to renderer_render()
cr_renderer_render ==
    /\ CtrlIdle
    /\ prefs.node_list => PoolIdle
    /\ \E c \in 0..MaxClients : clients' = IF prefs.node_list THEN c ELSE clients
    /\ IF NothingToRenderWith(clients')
       THEN UNCHANGED <<workers, result_buf, current_set, tile_mutex, state_s,
                        main_active, top_level_dirty>>
       ELSE renderer_render
    /\ ret' = [op |-> "render"]
    /\ UNCHANGED <<prefs, cameras, instances, shader_buffers, mstate, ctrl>>

cr_renderer_start_interactive ==
    /\ CtrlIdle
    /\ prefs' = [prefs EXCEPT !.iterative = TRUE]
    /\ IF prefs.threads = 0
       THEN UNCHANGED <<workers, result_buf, current_set, tile_mutex, state_s,
                        main_active, top_level_dirty>>
       ELSE renderer_start_interactive
    /\ UNCHANGED <<clients, cameras, instances, shader_buffers, mstate, ctrl, ret>>

\* the run state cr_renderer_stop requests (c-ray.c:161)
StopState == "exiting"

\* cr_renderer_stop, first half: request the stop
StopRequest ==
    /\ CtrlIdle
    /\ state_s' = StopState
    /\ ctrl' = [pc |-> "stop_wait", from |-> state_s]
    /\ UNCHANGED <<prefs, clients, workers, result_buf, current_set, tile_mutex,
                   main_active, mstate, sstate, ret>>

\* the loop condition of cr_renderer_stop (c-ray.c:165): keep waiting
StopKeepsWaiting_never == FALSE
StopKeepsWaiting == prefs.iterative /\ state_s = "exiting"

\* cr_renderer_stop, second half: after a sleep, return unless the loop goes on
StopReturn ==
    /\ ctrl.pc = "stop_wait"
    /\ ~StopKeepsWaiting
    /\ ctrl' = Idle
    /\ UNCHANGED <<prefs, rstate, mstate, sstate, ret>>

\* --------------------------------------- cr_renderer_restart_interactive
\* the early returns of cr_renderer_restart_interactive (c-ray.c:848-851)
RestartRefused_ignores_mode ==
    \/ Len(workers) = 0
    \/ result_buf = NULL
    \/ current_set = NULL
RestartRefused ==
    \/ ~prefs.iterative
    \/ Len(workers) = 0
    \/ result_buf = NULL
    \/ current_set = NULL

\* the camera's resolution differs from the result buffer's (c-ray.c:853)
ResolutionChanged ==
    LET cam == Camera(prefs.selected_camera) IN
      result_buf.width # cam.width \/ result_buf.height # cam.height

\* number of workers whose acknowledgement the restart waits for (c-ray.c:862)
RestartWaitCount_local_only == Min(prefs.threads, Len(workers))
RestartWaitCount == Len(workers)

\* entry: refuse, or (resolution changed) request the pause, or go to the final part;
\* `resized` records which way the final part was reached
RestartEnter ==
    /\ CtrlIdle
    /\ IF RestartRefused
       THEN /\ ret' = [op |-> "restart_refused"]
            /\ UNCHANGED <<workers, ctrl>>
       ELSE /\ prefs.selected_camera < Len(cameras)
            /\ IF ResolutionChanged
               THEN /\ workers' = toggle_workers
                    /\ ctrl' \in AfterAccess(toggle_out_of_bounds,
                                             [pc |-> "ri_wait", i |-> 1, acked |-> {}])
               ELSE /\ ctrl' = [pc |-> "ri_final", resized |-> FALSE]
                    /\ UNCHANGED workers
            /\ ret' = [op |-> "restart"]
    /\ UNCHANGED <<prefs, state_s, clients, result_buf, current_set, tile_mutex,
                   main_active, mstate, sstate>>

\* the wait loop reads workers.items[i].in_pause_loop (c-ray.c:862-863)
RestartWait ==
    /\ ctrl.pc = "ri_wait"
    /\ IF ctrl.i > RestartWaitCount
       THEN ctrl' = [pc |-> "ri_destroy", acked |-> ctrl.acked]
       ELSE IF workers[ctrl.i].in_pause_loop
       THEN ctrl' = [ctrl EXCEPT !.i = ctrl.i + 1, !.acked = ctrl.acked \cup {ctrl.i}]
       ELSE ctrl' = [ctrl EXCEPT !.pc = "ri_sleep"]
    /\ UNCHANGED <<prefs, rstate, mstate, sstate, ret>>

\* after the sleep: bail out when the renderer stopped, else poll again (c-ray.c:864-869)
RestartSleep ==
    /\ ctrl.pc = "ri_sleep"
    /\ IF state_s # "rendering"
       THEN /\ workers' = toggle_workers
            /\ ctrl' \in AfterAccess(toggle_out_of_bounds, Idle)
       ELSE /\ ctrl' = [ctrl EXCEPT !.pc = "ri_wait"]
            /\ UNCHANGED workers
    /\ UNCHANGED <<prefs, state_s, clients, result_buf, current_set, tile_mutex,
                   main_active, mstate, sstate, ret>>

\* tex_destroy(r->state.result_buf) (c-ray.c:873): the pointer is left dangling
RestartDestroy ==
    /\ ctrl.pc = "ri_destroy"
    /\ result_buf' = [result_buf EXCEPT !.live = FALSE]
    /\ ctrl' = [ctrl EXCEPT !.pc = "ri_new"]
    /\ UNCHANGED <<prefs, state_s, clients, workers, current_set, tile_mutex,
                   main_active, mstate, sstate, ret>>

\* r->state.result_buf = tex_new(float_p, cam->width, cam->height, 4) (c-ray.c:874)
RestartNewBuffer ==
    /\ ctrl.pc = "ri_new"
    /\ LET cam == Camera(prefs.selected_camera) IN
         result_buf' = tex_new(cam.width, cam.height)
    /\ ctrl' = [ctrl EXCEPT !.pc = "ri_tiles"]
    /\ UNCHANGED <<prefs, state_s, clients, workers, current_set, tile_mutex,
                   main_active, mstate, sstate, ret>>

\* patch in the new tiles under the tile-set lock (c-ray.c:877-882)
RestartNewTiles ==
    /\ ctrl.pc = "ri_tiles"
    /\ tile_mutex = "free"
    /\ current_set' = NewTileSet(Camera(prefs.selected_camera))
    /\ ctrl' = [ctrl EXCEPT !.pc = "ri_resume"]
    /\ UNCHANGED <<prefs, state_s, clients, workers, result_buf, tile_mutex,
                   main_active, mstate, sstate, ret>>

\* the second cr_renderer_toggle_pause of the resize branch (c-ray.c:884)
RestartResume ==
    /\ ctrl.pc = "ri_resume"
    /\ workers' = toggle_workers
    /\ ctrl' \in AfterAccess(toggle_out_of_bounds, [pc |-> "ri_final", resized |-> TRUE])
    /\ UNCHANGED <<prefs, state_s, clients, result_buf, current_set, tile_mutex,
                   main_active, mstate, sstate, ret>>

\* mutex_lock(r->state.current_set->tile_mutex) (c-ray.c:888)
RestartLock ==
    /\ ctrl.pc = "ri_final"
    /\ tile_mutex = "free"
    /\ tile_mutex' = "ctrl"
    /\ ctrl' = [ctrl EXCEPT !.pc = "ri_clear"]
    /\ UNCHANGED <<prefs, state_s, clients, workers, result_buf, current_set,
                   main_active, mstate, sstate, ret>>

\* number of worker entries whose sample counter the restart resets (c-ray.c:891)
ResetCount == prefs.threads

\* tex_clear, finished = 0 and the sample counter reset (c-ray.c:889-895)
RestartClear ==
    /\ ctrl.pc = "ri_clear"
    /\ current_set' = [current_set EXCEPT !.finished = 0]
    /\ workers' = [i \in WorkerIdx |->
                     IF i <= ResetCount THEN [workers[i] EXCEPT !.totalSamples = 0]
                     ELSE workers[i]]
    /\ ctrl' \in AfterAccess(ResetCount > Len(workers), [ctrl EXCEPT !.pc = "ri_bvh"])
    /\ UNCHANGED <<prefs, state_s, clients, result_buf, tile_mutex, main_active,
                   mstate, sstate, ret>>

\* update_toplevel_bvh(r->scene) (c-ray.c:896): the index is rebuilt, the flag cleared
RestartUpdateBvh ==
    /\ ctrl.pc = "ri_bvh"
    /\ top_level_dirty' = FALSE
    /\ ctrl' = [ctrl EXCEPT !.pc = "ri_release"]
    /\ UNCHANGED <<prefs, rstate, mstate, cameras, instances, shader_buffers, ret>>

\* thread_pool_wait(bg_worker); mutex_release(tile_mutex) (c-ray.c:898-899)
RestartRelease ==
    /\ ctrl.pc = "ri_release"
    /\ PoolIdle
    /\ tile_mutex' = "free"
    /\ ctrl' = Idle
    /\ UNCHANGED <<prefs, state_s, clients, workers, result_buf, current_set,
                   main_active, mstate, sstate, ret>>

\* ---------------------------------------------------------------- handles
\* `(size_t)h > count - 1`: the range test the handle-taking calls share
HandleRejected(h, count) == ToSize(h) > ToSize(count - 1)

\* h is an index of an array of `count` elements
ValidIndex(h, count) == h >= 0 /\ h < count

\* handle values a caller passes for an array that holds at most n elements
Handles(n) == -1..n

\* ---------------------------------------------------------------- cameras
CameraParams == {"fov", "res_x", "res_y", "unknown"}

cr_camera_new ==
    /\ CtrlIdle
    /\ Len(cameras) < MaxCameras
    /\ cameras' = Append(cameras, default_camera)
    /\ ret' = [op |-> "camera_new", val |-> Len(cameras)]
    /\ UNCHANGED <<prefs, rstate, mstate, top_level_dirty, instances, shader_buffers, ctrl>>

\* cameras after the switch of cr_camera_set_num_pref on a valid camera
camera_set(c, p, num) ==
    CASE p = "fov"   -> [cameras EXCEPT ![c + 1].FOV = num]
      [] p = "res_x" -> [cameras EXCEPT ![c + 1].width = num]
      [] p = "res_y" -> [cameras EXCEPT ![c + 1].height = num]
      [] OTHER       -> cameras

cr_camera_set_num_pref(c, p, num) ==
    /\ CtrlIdle
    /\ IF c < 0 \/ HandleRejected(c, Len(cameras))
       THEN /\ ret' = [op |-> "camera_set_num_pref", val |-> 0]
            /\ UNCHANGED <<cameras, ctrl>>
       ELSE /\ ret' = [op |-> "camera_set_num_pref", val |-> IF p = "unknown" THEN 0 ELSE 1]
            /\ IF ValidIndex(c, Len(cameras))
               THEN cameras' = camera_set(c, p, num) /\ UNCHANGED ctrl
               ELSE ctrl' \in AfterAccess(TRUE, Idle) /\ UNCHANGED cameras
    /\ UNCHANGED <<prefs, rstate, mstate, top_level_dirty, instances, shader_buffers>>

\* cr_camera_update: recompute pose and optics (no field of the model changes)
cr_camera_update(c) ==
    /\ CtrlIdle
    /\ IF c < 0 \/ HandleRejected(c, Len(cameras))
       THEN /\ ret' = [op |-> "camera_update", val |-> 0]
            /\ UNCHANGED ctrl
       ELSE /\ ret' = [op |-> "camera_update", val |-> 1]
            /\ ctrl' \in AfterAccess(~ValidIndex(c, Len(cameras)), Idle)
    /\ UNCHANGED <<prefs, rstate, mstate, sstate>>

\* ----------------------------------------------------------------- meshes
EmptyVbuf == [vertices |-> <<>>, normals |-> <<>>, texture_coords |-> <<>>]
EmptyMesh == [vbuf |-> EmptyVbuf, polygons |-> <<>>, bvh |-> 0]

\* struct cr_vertex_buf_param values a caller binds
VertexBufs ==
    {EmptyVbuf, [vertices |-> <<1, 2>>, normals |-> <<1>>, texture_coords |-> <<1>>]}

\* face arrays a caller binds (null: no array at all)
FaceLists ==
    {[null |-> TRUE, list |-> <<>>]} \cup
    {[null |-> FALSE, list |-> f] : f \in UNION {[1..n -> {1}] : n \in 0..MaxPolys}}

LockFree == bvh_lock.writer = 0 /\ bvh_lock.readers = {}

\* cr_scene_mesh_new: append an empty mesh under the write lock
cr_scene_mesh_new ==
    /\ CtrlIdle
    /\ Len(meshes) < MaxMeshes
    /\ LockFree
    /\ meshes' = Append(meshes, EmptyMesh)
    /\ ret' = [op |-> "mesh_new", val |-> Len(meshes)]
    /\ UNCHANGED <<prefs, rstate, bvh_lock, tasks, heap, sstate, ctrl>>

cr_mesh_bind_vertex_buf(mesh, buf) ==
    /\ CtrlIdle
    /\ IF HandleRejected(mesh, Len(meshes))
       THEN UNCHANGED <<meshes, ctrl>>
       ELSE IF ValidIndex(mesh, Len(meshes))
       THEN meshes' = [meshes EXCEPT ![mesh + 1].vbuf = buf] /\ UNCHANGED ctrl
       ELSE ctrl' \in AfterAccess(TRUE, Idle) /\ UNCHANGED meshes
    /\ UNCHANGED <<prefs, rstate, bvh_lock, tasks, heap, sstate, ret>>

\* arg->mesh = *m (c-ray.c:314) copies the mesh structure, not the storage of its
\* polygon array: a build that has not finished reads the polygons through the pointer the
\* mesh held at finalize. poly_arr_add(&m->polygons, ...) that has to grow the array moves
\* the storage and frees the old block under every such build of the mesh.
poly_arr_moved(ts, mesh) ==
    {IF t.pc = "build" /\ t.mesh_idx = mesh /\ Len(t.mesh.polygons) > 0
     THEN [t EXCEPT !.items_freed = TRUE] ELSE t : t \in ts}

cr_mesh_bind_faces(mesh, faces) ==
    /\ CtrlIdle
    /\ IF faces.null \/ HandleRejected(mesh, Len(meshes))
       THEN UNCHANGED <<meshes, tasks, ctrl>>
       ELSE IF ValidIndex(mesh, Len(meshes))
       THEN /\ Len(meshes[mesh + 1].polygons) + Len(faces.list) <= 2 * MaxPolys
            /\ meshes' = [meshes EXCEPT ![mesh + 1].polygons = @ \o faces.list]
            /\ IF Len(faces.list) > 0
               THEN tasks' \in {tasks, poly_arr_moved(tasks, mesh)}
               ELSE UNCHANGED tasks
            /\ UNCHANGED ctrl
       ELSE /\ ctrl' \in AfterAccess(Len(faces.list) > 0, Idle)
            /\ UNCHANGED <<meshes, tasks>>
    /\ UNCHANGED <<prefs, rstate, bvh_lock, heap, sstate, ret>>

\* the bvh_build_task_arg cr_mesh_finalize fills in
NewTask(snapshot, idx) ==
    [tid |-> heap.builds + 1, mesh |-> snapshot, mesh_idx |-> idx,
     pc |-> "build", bvh |-> 0, old_bvh |-> 0, items_freed |-> FALSE]

\* cr_mesh_finalize: copy the mesh into a task argument and enqueue the build
cr_mesh_finalize(mesh) ==
    /\ CtrlIdle
    /\ IF HandleRejected(mesh, Len(meshes))
       THEN UNCHANGED <<tasks, heap, ctrl>>
       ELSE /\ heap.builds < MaxBuilds
            /\ IF ValidIndex(mesh, Len(meshes))
               THEN /\ tasks' = tasks \cup {NewTask(meshes[mesh + 1], mesh)}
                    /\ heap' = [heap EXCEPT !.builds = @ + 1]
                    /\ UNCHANGED ctrl
               ELSE \/ ctrl' = Crashed /\ UNCHANGED <<tasks, heap>>
                    \/ /\ tasks' = tasks \cup {NewTask(EmptyMesh, mesh)}
                       /\ heap' = [heap EXCEPT !.builds = @ + 1]
                       /\ UNCHANGED ctrl
    /\ UNCHANGED <<prefs, rstate, meshes, bvh_lock, sstate, ret>>

\* ------------------------------------------------------- bvh_build_task
\* build_mesh_bvh(&bt->mesh) ran, outside any lock; a failed build frees the argument
\* and returns (c-ray.c:254-260)
TaskBuild_failure_goes_on(t) ==
    /\ Running
    /\ t \in tasks /\ t.pc = "build"
    /\ \/ /\ tasks' = (tasks \ {t}) \cup {[t EXCEPT !.pc = "lock", !.bvh = t.tid]}
          /\ heap' = [heap EXCEPT !.live = @ \cup {t.tid}]
       \/ /\ tasks' = (tasks \ {t}) \cup {[t EXCEPT !.pc = "lock"]}
          /\ UNCHANGED heap
    /\ UNCHANGED <<prefs, rstate, meshes, bvh_lock, sstate, ctrl, ret>>
TaskBuild(t) ==
    /\ Running
    /\ t \in tasks /\ t.pc = "build"
    /\ \/ /\ tasks' = (tasks \ {t}) \cup {[t EXCEPT !.pc = "lock", !.bvh = t.tid]}
          /\ heap' = [heap EXCEPT !.live = @ \cup {t.tid}]
       \/ /\ tasks' = tasks \ {t}
          /\ UNCHANGED heap
    /\ UNCHANGED <<prefs, rstate, meshes, bvh_lock, sstate, ctrl, ret>>

\* build_mesh_bvh(&bt->mesh) reads polygon storage that was freed: the read is undefined,
\* it either faults here or goes on as TaskBuild with whatever it read
TaskReadFreed(t) ==
    /\ Running
    /\ t \in tasks /\ t.pc = "build" /\ t.items_freed
    /\ ctrl' = Crashed
    /\ UNCHANGED <<prefs, rstate, meshes, bvh_lock, tasks, heap, sstate, ret>>

\* thread_rwlock_wrlock(&bt->scene->bvh_lock) (c-ray.c:262)
TaskLock_ignores_readers(t) ==
    /\ Running
    /\ t \in tasks /\ t.pc = "lock"
    /\ bvh_lock.writer = 0
    /\ bvh_lock' = [bvh_lock EXCEPT !.writer = t.tid]
    /\ tasks' = (tasks \ {t}) \cup {[t EXCEPT !.pc = "swap"]}
    /\ UNCHANGED <<prefs, rstate, meshes, heap, sstate, ctrl, ret>>
TaskLock(t) ==
    /\ Running
    /\ t \in tasks /\ t.pc = "lock"
    /\ LockFree
    /\ bvh_lock' = [bvh_lock EXCEPT !.writer = t.tid]
    /\ tasks' = (tasks \ {t}) \cup {[t EXCEPT !.pc = "swap"]}
    /\ UNCHANGED <<prefs, rstate, meshes, heap, sstate, ctrl, ret>>

\* read the old pointer, store the new one (c-ray.c:263-264)
TaskSwap(t) ==
    /\ Running
    /\ t \in tasks /\ t.pc = "swap"
    /\ IF ValidIndex(t.mesh_idx, Len(meshes))
       THEN /\ meshes' = [meshes EXCEPT ![t.mesh_idx + 1].bvh = t.bvh]
            /\ tasks' = (tasks \ {t}) \cup
                          {[t EXCEPT !.pc = "unlock", !.old_bvh = meshes[t.mesh_idx + 1].bvh]}
            /\ UNCHANGED ctrl
       ELSE /\ ctrl' \in AfterAccess(TRUE, ctrl)
            /\ tasks' = (tasks \ {t}) \cup {[t EXCEPT !.pc = "unlock"]}
            /\ UNCHANGED meshes
    /\ UNCHANGED <<prefs, rstate, bvh_lock, heap, sstate, ret>>

\* thread_rwlock_unlock(&bt->scene->bvh_lock) (c-ray.c:265)
TaskUnlock_keeps_lock(t) ==
    /\ Running
    /\ t \in tasks /\ t.pc = "unlock"
    /\ tasks' = (tasks \ {t}) \cup {[t EXCEPT !.pc = "destroy"]}
    /\ UNCHANGED <<prefs, rstate, meshes, bvh_lock, heap, sstate, ctrl, ret>>
TaskUnlock(t) ==
    /\ Running
    /\ t \in tasks /\ t.pc = "unlock"
    /\ bvh_lock' = [bvh_lock EXCEPT !.writer = 0]
    /\ tasks' = (tasks \ {t}) \cup {[t EXCEPT !.pc = "destroy"]}
    /\ UNCHANGED <<prefs, rstate, meshes, heap, sstate, ctrl, ret>>

\* destroy_bvh(old_bvh); free(bt) (c-ray.c:268-269)
TaskDestroy(t) ==
    /\ Running
    /\ t \in tasks /\ t.pc = "destroy"
    /\ heap' = IF t.old_bvh = 0 THEN heap
               ELSE [heap EXCEPT !.live = @ \ {t.old_bvh},
                                 !.destroyed = @ \cup {t.old_bvh}]
    /\ ctrl' \in AfterAccess(t.old_bvh \in heap.destroyed, ctrl)
    /\ tasks' = tasks \ {t}
    /\ UNCHANGED <<prefs, rstate, meshes, bvh_lock, sstate, ret>>

\* ------------------------------------------- readers of the mesh BVHs
Readers == 1..MaxReaders

\* a render thread takes the read lock and starts traversing the BVH of mesh m
ReaderAcquire(r, m) ==
    /\ Running
    /\ bvh_lock.writer = 0
    /\ \A rd \in bvh_lock.readers : rd.rid # r
    /\ m \in 1..Len(meshes)
    /\ bvh_lock' = [bvh_lock EXCEPT !.readers = @ \cup {[rid |-> r, bvh |-> meshes[m].bvh]}]
    /\ UNCHANGED <<prefs, rstate, meshes, tasks, heap, sstate, ctrl, ret>>

\* the traversal is over: the read lock is released
ReaderRelease(r) ==
    /\ Running
    /\ \E rd \in bvh_lock.readers :
          /\ rd.rid = r
          /\ bvh_lock' = [bvh_lock EXCEPT !.readers = @ \ {rd}]
    /\ UNCHANGED <<prefs, rstate, meshes, tasks, heap, sstate, ctrl, ret>>

\* -------------------------------------------------------------- instances
\* 4x4 transforms are modelled by the permutations of three points: a small group
\* that is not commutative and in which every element has an inverse
Identity == <<1, 2, 3>>
Matrices == {<<1, 2, 3>>, <<2, 1, 3>>, <<1, 3, 2>>}

\* mat_mul(A, B)
mat_mul(A, B) == [i \in 1..3 |-> A[B[i]]]

\* mat_invert(A)
mat_invert(A) == [i \in 1..3 |-> CHOOSE j \in 1..3 : A[j] = i]

ObjectTypes == {"mesh", "sphere", "other"}

\* cr_instance_new: an instance of the object with the identity transform
cr_instance_new(object, type) ==
    /\ CtrlIdle
    /\ IF type \in {"mesh", "sphere"}
       THEN /\ Len(instances) < MaxInstances
            /\ instances' = Append(instances,
                 [object |-> object, type |-> type, A |-> Identity, Ainv |-> Identity,
                  bbuf_idx |-> 0])
            /\ top_level_dirty' = TRUE
            /\ ret' = [op |-> "instance_new", val |-> Len(instances)]
       ELSE /\ ret' = [op |-> "instance_new", val |-> -1]
            /\ UNCHANGED <<instances, top_level_dirty>>
    /\ UNCHANGED <<prefs, rstate, mstate, cameras, shader_buffers, ctrl>>

\* memcmp(&i->composite, &mtx, sizeof(mtx)) == 0 (c-ray.c:377): the matrix handed in is
\* the instance's forward transform already
SameTransform_never(inst, mtx) == FALSE
SameTransform(inst, mtx) == inst.A = mtx

cr_instance_set_transform(instance, mtx) ==
    /\ CtrlIdle
    /\ IF HandleRejected(instance, Len(instances))
       THEN UNCHANGED <<instances, top_level_dirty, ctrl>>
       ELSE IF ~ValidIndex(instance, Len(instances))
       THEN /\ ctrl' \in AfterAccess(TRUE, Idle)
            /\ UNCHANGED instances
            /\ top_level_dirty' \in {top_level_dirty, TRUE}
       ELSE IF SameTransform(instances[instance + 1], mtx)
       THEN UNCHANGED <<instances, top_level_dirty, ctrl>>
       ELSE /\ instances' = [instances EXCEPT ![instance + 1].A = mtx,
                                               ![instance + 1].Ainv = mat_invert(mtx)]
            /\ top_level_dirty' = TRUE
            /\ UNCHANGED ctrl
    /\ UNCHANGED <<prefs, rstate, mstate, cameras, shader_buffers, ret>>

\* the forward transform cr_instance_transform stores (c-ray.c:391)
transform_compose_replaces(A, mtx) == mtx
transform_compose(A, mtx) == mat_mul(A, mtx)

cr_instance_transform(instance, mtx) ==
    /\ CtrlIdle
    /\ IF HandleRejected(instance, Len(instances))
       THEN UNCHANGED <<instances, top_level_dirty, ctrl>>
       ELSE IF ~ValidIndex(instance, Len(instances))
       THEN /\ ctrl' \in AfterAccess(TRUE, Idle)
            /\ UNCHANGED instances
            /\ top_level_dirty' = TRUE
       ELSE /\ instances' =
                 [instances EXCEPT
                    ![instance + 1].A = transform_compose(@, mtx),
                    ![instance + 1].Ainv =
                        mat_invert(transform_compose(instances[instance + 1].A, mtx))]
            /\ top_level_dirty' = TRUE
            /\ UNCHANGED ctrl
    /\ UNCHANGED <<prefs, rstate, mstate, cameras, shader_buffers, ret>>

cr_instance_bind_material_set(instance, set) ==
    /\ CtrlIdle
    /\ IF HandleRejected(instance, Len(instances)) \/ HandleRejected(set, Len(shader_buffers))
       THEN /\ ret' = [op |-> "bind_material_set", val |-> 0]
            /\ UNCHANGED <<instances, ctrl>>
       ELSE /\ ret' = [op |-> "bind_material_set", val |-> 1]
            /\ IF ValidIndex(instance, Len(instances))
               THEN instances' = [instances EXCEPT ![instance + 1].bbuf_idx = set]
                    /\ UNCHANGED ctrl
               ELSE ctrl' \in AfterAccess(TRUE, Idle) /\ UNCHANGED instances
    /\ UNCHANGED <<prefs, rstate, mstate, cameras, top_level_dirty, shader_buffers>>

\* ---------------------------------------------------------- material sets
\* shader descriptions a caller passes
Descs == {1, 2}

cr_scene_new_material_set ==
    /\ CtrlIdle
    /\ Len(shader_buffers) < MaxSets
    /\ shader_buffers' = Append(shader_buffers, <<>>)
    /\ ret' = [op |-> "new_material_set", val |-> Len(shader_buffers)]
    /\ UNCHANGED <<prefs, rstate, mstate, cameras, top_level_dirty, instances, ctrl>>

cr_material_set_add(set, desc) ==
    /\ CtrlIdle
    /\ IF HandleRejected(set, Len(shader_buffers))
       THEN /\ ret' = [op |-> "material_set_add", val |-> -1]
            /\ UNCHANGED <<shader_buffers, ctrl>>
       ELSE IF ValidIndex(set, Len(shader_buffers))
       THEN /\ Len(shader_buffers[set + 1]) < MaxMats
            /\ shader_buffers' = [shader_buffers EXCEPT ![set + 1] = Append(@, desc)]
            /\ ret' = [op |-> "material_set_add", val |-> Len(shader_buffers[set + 1])]
            /\ UNCHANGED ctrl
       ELSE /\ ctrl' \in AfterAccess(TRUE, Idle)
            /\ ret' = [op |-> "material_set_add", val |-> 0]
            /\ UNCHANGED shader_buffers
    /\ UNCHANGED <<prefs, rstate, mstate, cameras, top_level_dirty, instances>>

cr_material_update(set, mat, desc) ==
    /\ CtrlIdle
    /\ IF HandleRejected(set, Len(shader_buffers))
       THEN UNCHANGED <<shader_buffers, ctrl>>
       ELSE IF ~ValidIndex(set, Len(shader_buffers))
       THEN ctrl' \in AfterAccess(TRUE, Idle) /\ UNCHANGED shader_buffers
       ELSE IF HandleRejected(mat, Len(shader_buffers[set + 1]))
       THEN UNCHANGED <<shader_buffers, ctrl>>
       ELSE IF ~ValidIndex(mat, Len(shader_buffers[set + 1]))
       THEN ctrl' \in AfterAccess(TRUE, Idle) /\ UNCHANGED shader_buffers
       ELSE /\ shader_buffers' = [shader_buffers EXCEPT ![set + 1][mat + 1] = desc]
            /\ UNCHANGED ctrl
    /\ UNCHANGED <<prefs, rstate, mstate, cameras, top_level_dirty, instances, ret>>

\* ------------------------------------------------------------ specifications
Worker ==
    \E i \in 1..(MaxThreads + MaxClients) :
       WorkerRun(i) \/ WorkerComplete(i) \/ WorkerResume(i)

Main == MainNextPass \/ MainFinish \/ MainStopped

Restart ==
    \/ RestartEnter \/ RestartWait \/ RestartSleep \/ RestartDestroy \/ RestartNewBuffer
    \/ RestartNewTiles \/ RestartResume \/ RestartLock \/ RestartClear
    \/ RestartUpdateBvh \/ RestartRelease

\* the renderer driven by local threads: start, pause, restart, stop, against the workers
Next ==
    \/ \E n \in 0..MaxThreads : cr_renderer_set_num_pref("threads", n)
    \/ cr_camera_new
    \/ \E num \in 1..MaxRes : cr_camera_set_num_pref(0, "res_x", num)
    \/ cr_renderer_render
    \/ cr_renderer_start_interactive
    \/ cr_renderer_toggle_pause
    \/ StopRequest
    \/ StopReturn
    \/ Restart
    \/ Worker
    \/ Main

Spec == Init /\ [][Next]_vars

\* one-shot renders with local threads and network clients
RenderNext ==
    \/ \E n \in 0..MaxThreads : cr_renderer_set_num_pref("threads", n)
    \/ cr_renderer_set_str_pref_node_list
    \/ cr_camera_new
    \/ cr_renderer_render
    \/ cr_renderer_toggle_pause
    \/ StopRequest
    \/ StopReturn
    \/ Worker
    \/ MainFinish
    \/ MainStopped

RenderSpec == Init /\ [][RenderNext]_vars

\* interactive renders and the stop request, every thread scheduled fairly
FairNext ==
    \/ cr_camera_new
    \/ cr_renderer_render
    \/ cr_renderer_start_interactive
    \/ cr_renderer_toggle_pause
    \/ StopRequest
    \/ StopReturn
    \/ Worker
    \/ Main

FairSpec ==
    /\ Init
    /\ [][FairNext]_vars
    /\ \A i \in 1..MaxThreads :
          WF_vars(WorkerRun(i)) /\ WF_vars(WorkerComplete(i)) /\ WF_vars(WorkerResume(i))
    /\ WF_vars(Main)
    /\ WF_vars(StopReturn)

\* parameters the preference specification sets
PrefParams == {"threads", "bounces", "override_cam", "is_iterative", "tile_order"}

\* the preference setters
PrefNext ==
    \/ \E p \in PrefParams, num \in NumValues : cr_renderer_set_num_pref(p, num)
    \/ cr_renderer_set_str_pref_node_list
    \/ cr_camera_new

PrefSpec == Init /\ [][PrefNext]_vars

BuildTask ==
    \E t \in tasks :
        \/ TaskBuild(t) \/ TaskReadFreed(t)
        \/ TaskLock(t) \/ TaskSwap(t) \/ TaskUnlock(t) \/ TaskDestroy(t)

\* meshes and the background BVH builds
SceneNext ==
    \/ cr_scene_mesh_new
    \/ \E m \in Handles(MaxMeshes), buf \in VertexBufs : cr_mesh_bind_vertex_buf(m, buf)
    \/ \E m \in Handles(MaxMeshes), faces \in FaceLists : cr_mesh_bind_faces(m, faces)
    \/ \E m \in Handles(MaxMeshes) : cr_mesh_finalize(m)
    \/ BuildTask
    \/ \E r \in Readers, m \in 1..MaxMeshes : ReaderAcquire(r, m)
    \/ \E r \in Readers : ReaderRelease(r)

SceneSpec == Init /\ [][SceneNext]_vars

\* cameras, instances and material sets
ObjectNext ==
    \/ cr_camera_new
    \/ \E c \in Handles(MaxCameras), p \in CameraParams, num \in 1..MaxRes :
          cr_camera_set_num_pref(c, p, num)
    \/ \E c \in Handles(MaxCameras) : cr_camera_update(c)
    \/ \E type \in ObjectTypes : cr_instance_new(0, type)
    \/ \E i \in Handles(MaxInstances), mtx \in Matrices : cr_instance_set_transform(i, mtx)
    \/ \E i \in Handles(MaxInstances), mtx \in Matrices : cr_instance_transform(i, mtx)
    \/ \E i \in Handles(MaxInstances), s \in Handles(MaxSets) :
          cr_instance_bind_material_set(i, s)
    \/ cr_scene_new_material_set
    \/ \E s \in Handles(MaxSets), d \in Descs : cr_material_set_add(s, d)
    \/ \E s \in Handles(MaxSets), m \in Handles(MaxMats), d \in Descs :
          cr_material_update(s, m, d)

ObjectSpec == Init /\ [][ObjectNext]_vars

\* instances and their transforms, with one-shot renders rebuilding the top-level index
InstanceNext ==
    \/ cr_camera_new
    \/ \E type \in ObjectTypes : cr_instance_new(0, type)
    \/ \E i \in Handles(MaxInstances), mtx \in Matrices : cr_instance_set_transform(i, mtx)
    \/ \E i \in Handles(MaxInstances), mtx \in Matrices : cr_instance_transform(i, mtx)
    \/ cr_renderer_render
    \/ \E i \in 1..MaxThreads : WorkerRun(i) \/ WorkerComplete(i)
    \/ MainFinish

InstanceSpec == Init /\ [][InstanceNext]_vars

\* the control-flow positions inside cr_renderer_restart_interactive
RestartPcs ==
    {"ri_wait", "ri_sleep", "ri_destroy", "ri_new", "ri_tiles", "ri_resume", "ri_final",
     "ri_clear", "ri_bvh", "ri_release"}

\* interactive renders with pause, resize, restart and stop; the thread preference is
\* the one the renderer was created with
RestartFairNext ==
    \/ cr_camera_new
    \/ \E num \in 1..MaxRes : cr_camera_set_num_pref(0, "res_x", num)
    \/ cr_renderer_start_interactive
    \/ cr_renderer_toggle_pause
    \/ StopRequest
    \/ StopReturn
    \/ Restart
    \/ Worker
    \/ MainNextPass
    \/ MainStopped

\* every thread is scheduled fairly: the workers, the renderer's thread, and the caller
\* inside cr_renderer_stop and cr_renderer_restart_interactive
RestartFairSpec ==
    /\ Init
    /\ [][RestartFairNext]_vars
    /\ \A i \in 1..MaxThreads :
          WF_vars(WorkerRun(i)) /\ WF_vars(WorkerComplete(i)) /\ WF_vars(WorkerResume(i))
    /\ WF_vars(MainNextPass \/ MainStopped)
    /\ WF_vars(StopReturn)
    /\ WF_vars(Restart)

\* ------------------------------------------------------------------ claims
\* C1: at the moment cr_renderer_restart_interactive destroys the old result buffer and
\* installs the new one, no worker is running un-paused: every worker that has not left
\* is parked with its pause flag set
C1_WorkersQuiescentDuringResize ==
    ctrl.pc \in {"ri_destroy", "ri_new"} =>
       \A i \in WorkerIdx :
          \/ workers[i].pc = "exited"
          \/ workers[i].pc = "parked" /\ workers[i].paused

\* C2: on a resolution change, the result buffer is not destroyed or reallocated and the
\* tile array is not replaced before the controller, after requesting the pause, has seen
\* in_pause_loop set on every worker of the worker collection
C2_MutationAfterAllAcks ==
    ctrl.pc \in {"ri_destroy", "ri_new", "ri_tiles"} => ctrl.acked = WorkerIdx

\* C2 witness: the restart is about to destroy the buffer of a render with two workers
C2_Witness ==
    /\ ctrl.pc = "ri_destroy"
    /\ Len(workers) = MaxThreads
    /\ ctrl.acked = 1..MaxThreads

\* C3: a successful bvh_build_task holds the write lock only between acquiring it and
\* releasing it around the pointer swap; the build happens while the task does not hold
\* the lock; the previous BVH is destroyed only by a task that has released the lock, and
\* only once the mesh points at another, live BVH
C3_LockOnlyForSwap ==
    /\ [](\A t \in tasks : bvh_lock.writer = t.tid <=> t.pc \in {"swap", "unlock"})
    /\ [][\A t \in tasks :
            t.tid \in heap'.live \ heap.live =>
               bvh_lock.writer # t.tid /\ bvh_lock'.writer # t.tid]_vars
    /\ [][heap'.destroyed # heap.destroyed =>
            \E t \in tasks :
               /\ t.pc = "destroy"
               /\ heap'.destroyed = heap.destroyed \cup {t.old_bvh}
               /\ bvh_lock.writer # t.tid
               /\ ValidIndex(t.mesh_idx, Len(meshes))
               /\ meshes[t.mesh_idx + 1].bvh # t.old_bvh
               /\ meshes[t.mesh_idx + 1].bvh \in heap.live]_vars

\* C3 witness: a second build replaced the first BVH of the mesh and destroyed it
C3_Witness ==
    /\ heap.destroyed # {}
    /\ tasks = {}
    /\ bvh_lock.writer = 0
    /\ Len(meshes) = 1
    /\ meshes[1].bvh \in heap.live

\* C4: when build_mesh_bvh fails, the task ends there: it takes no lock, swaps nothing,
\* destroys nothing; the meshes, the heap, the lock, the renderer state and the rest of
\* the scene are as before
C4_FailedBuildChangesNothing ==
    [][\A t \in tasks :
         (TaskBuild(t) /\ heap'.live = heap.live) =>
            /\ tasks' = tasks \ {t}
            /\ UNCHANGED <<meshes, bvh_lock, heap, prefs, rstate, sstate, ctrl>>]_vars

\* C4 witness: the one build that was requested has ended without producing a BVH
C4_Witness ==
    /\ heap.builds = 1
    /\ tasks = {}
    /\ heap.live = {} /\ heap.destroyed = {}
    /\ Len(meshes) = 1
    /\ meshes[1].bvh = 0
    /\ ctrl = Idle

\* C5: cr_renderer_render with zero local threads and zero connected network workers
\* starts no worker and leaves the run state as it was
C5_NothingToRenderWith ==
    [][(cr_renderer_render /\ prefs.threads = 0 /\ clients' = 0) =>
          UNCHANGED <<state_s, workers, result_buf, current_set, main_active>>]_vars

\* C5 witness: a render was requested with a camera and a node list but no thread and
\* no client, and the renderer is still idle
C5_Witness ==
    /\ ret.op = "render"
    /\ prefs.threads = 0 /\ clients = 0 /\ prefs.node_list
    /\ Len(cameras) = 1
    /\ state_s = "idle" /\ workers = <<>> /\ ~main_active

\* C6: cr_renderer_set_num_pref(cr_renderer_bounces, n) returns false and changes no
\* preference when n > 512; it returns true and sets the bounce preference to n otherwise
C6_BounceCap ==
    [][\A n \in NumValues :
         cr_renderer_set_num_pref("bounces", n) =>
            IF n > 512
            THEN ret'.val = 0 /\ prefs' = prefs
            ELSE ret'.val = 1 /\ prefs' = [prefs EXCEPT !.bounces = n]]_vars

\* C6 witness: a bounce count was rejected after the cap itself had been accepted
C6_Witness ==
    /\ ret.op = "set_num_pref" /\ ret.p = "bounces" /\ ret.val = 0
    /\ prefs.bounces = 512

\* C7: cr_mesh_finalize given a handle that is not an index of the mesh array enqueues
\* no build task and changes neither the meshes nor the heap of BVHs
C7_InvalidMeshHandleIsNoOp ==
    [][\A m \in Handles(MaxMeshes) :
         (cr_mesh_finalize(m) /\ ~ValidIndex(m, Len(meshes))) =>
            UNCHANGED <<meshes, tasks, heap>>]_vars

\* C8: cr_renderer_stop called while the renderer is not rendering leaves the run state
\* as it found it
C8_StopWhenNotRunningIsNoOp ==
    (ctrl.pc = "stop_wait" /\ ctrl.from # "rendering") => state_s = ctrl.from

\* C9: cr_renderer_restart_interactive changes nothing (pause flags, result buffer, tile
\* set, completion counter, sample counters, top-level index) and returns at once when
\* the renderer is not interactive or has no workers, no result buffer or no tile set
C9_RestartMisuseIsNoOp ==
    [][(/\ RestartEnter
        /\ \/ ~prefs.iterative
           \/ Len(workers) = 0
           \/ result_buf = NULL
           \/ current_set = NULL) =>
          UNCHANGED <<prefs, rstate, mstate, sstate, ctrl>>]_vars

\* C9 witness: a restart was refused on a one-shot render whose workers are running
C9_Witness ==
    /\ ret.op = "restart_refused"
    /\ ~prefs.iterative
    /\ Len(workers) > 0 /\ result_buf # NULL /\ current_set # NULL
    /\ state_s = "rendering"

\* C10: cr_renderer_stop sets the run state to exiting; in interactive mode it returns
\* only when the state is no longer exiting, and, stopping a running interactive render
\* under fair scheduling, it does return; outside interactive mode nothing holds its
\* return back
C10_StopWaitsForConfirmation ==
    /\ [][StopRequest => state_s' = "exiting"]_vars
    /\ [][(StopReturn /\ prefs.iterative) => state_s # "exiting"]_vars
    /\ []((ctrl.pc = "stop_wait" /\ ~prefs.iterative) => ENABLED StopReturn)
    /\ (ctrl.pc = "stop_wait" /\ ctrl.from = "rendering" /\ prefs.iterative)
          ~> (ctrl.pc = "idle" /\ state_s # "exiting")

\* C10 witness: the stop of a running interactive render is still waiting, and the
\* renderer has left exiting
C10_Witness ==
    /\ ctrl.pc = "stop_wait" /\ ctrl.from = "rendering"
    /\ prefs.iterative
    /\ Len(workers) > 0
    /\ state_s = "finished"

\* the worker has not left its loop
Alive(i) == i \in WorkerIdx /\ workers[i].pc # "exited"

\* C11: two calls of cr_renderer_toggle_pause return the pause flag of every local worker
\* to its value before the first (which the first call changed), whatever the flags
\* were; and a worker's acknowledgement flag follows its pause flag once the worker has
\* reacted (set when it is paused, clear when it is not), so it returns with it
C11_ToggleTwiceRestores ==
    /\ [](\A i \in WorkerIdx :
            LET once == toggle_paused(workers, ToggleCount)
                twice == toggle_paused(once, ToggleCount) IN
              /\ twice[i] = workers[i]
              /\ i <= ToggleCount => once[i].paused # workers[i].paused)
    /\ \A i \in 1..MaxThreads :
          /\ (Alive(i) /\ workers[i].paused /\ state_s = "rendering")
                ~> (~Alive(i) \/ ~workers[i].paused \/ state_s # "rendering"
                     \/ workers[i].in_pause_loop)
          /\ (Alive(i) /\ ~workers[i].paused /\ workers[i].in_pause_loop)
                ~> (~Alive(i) \/ workers[i].paused \/ ~workers[i].in_pause_loop)

\* C11 witness: both workers of an interactive render are parked, paused and
\* acknowledged, as they are after a first toggle
C11_Witness ==
    /\ Len(workers) = MaxThreads
    /\ state_s = "rendering"
    /\ \A i \in WorkerIdx :
          workers[i].paused /\ workers[i].in_pause_loop /\ workers[i].pc = "parked"

\* C12: a cr_renderer_toggle_pause that stays inside the worker array flips the pause
\* flag of every local worker and of no network worker, and changes nothing else
C12_ToggleFlipsLocalOnly ==
    [][(cr_renderer_toggle_pause /\ ~toggle_out_of_bounds) =>
          /\ Len(workers') = Len(workers)
          /\ \A i \in WorkerIdx :
                workers'[i] = IF workers[i].net THEN workers[i]
                              ELSE [workers[i] EXCEPT !.paused = ~workers[i].paused]
          /\ UNCHANGED <<prefs, state_s, clients, result_buf, current_set, tile_mutex,
                         main_active, mstate, sstate>>]_vars

\* C13: cr_instance_transform on a valid instance multiplies the matrix onto the
\* instance's forward transform, stores the inverse of the product and sets the
\* top-level dirty flag; the stored inverse is the inverse of the forward transform in
\* every state, and two calls with A and then B amount to one with A.B
C13_TransformComposes ==
    /\ [][\A i \in Handles(MaxInstances), M \in Matrices :
            (cr_instance_transform(i, M) /\ ValidIndex(i, Len(instances))) =>
               /\ instances'[i + 1].A = mat_mul(instances[i + 1].A, M)
               /\ mat_mul(instances'[i + 1].A, instances'[i + 1].Ainv) = Identity
               /\ top_level_dirty']_vars
    /\ [](\A k \in 1..Len(instances) :
            /\ mat_mul(instances[k].A, instances[k].Ainv) = Identity
            /\ mat_mul(instances[k].Ainv, instances[k].A) = Identity
            /\ \A M1, M2 \in Matrices :
                  mat_mul(mat_mul(instances[k].A, M1), M2) =
                     mat_mul(instances[k].A, mat_mul(M1, M2)))

\* C13 witness: the instance's transform is a product that is none of the matrices the
\* caller handed in, with its inverse, and the flag is set
C13_Witness ==
    /\ Len(instances) = 1
    /\ instances[1].A \notin Matrices
    /\ instances[1].Ainv # instances[1].A
    /\ top_level_dirty

\* C14: the completion counter never exceeds the number of tiles, no two workers hold the
\* same tile, and a tile a worker holds is a tile of the current tile set in state
\* rendering, also while cr_renderer_restart_interactive resets the counter or replaces
\* the tile array
C14_TilesClaimedOnce ==
    current_set # NULL =>
       /\ current_set.finished <= Len(current_set.tiles)
       /\ \A i, j \in WorkerIdx :
             (i # j /\ workers[i].tile # 0) => workers[i].tile # workers[j].tile
       /\ \A i \in WorkerIdx :
             workers[i].tile # 0 =>
                /\ workers[i].tile \in 1..Len(current_set.tiles)
                /\ current_set.tiles[workers[i].tile] = "rendering"

\* C15: in a restart after a resolution change the workers are not resumed before the
\* top-level index has been rebuilt: until update_toplevel_bvh has run, every local worker
\* still in its loop has its pause flag set
C15_ResumeAfterIndexRebuild ==
    (ctrl.pc \in {"ri_final", "ri_clear", "ri_bvh"} /\ ctrl.resized) =>
       \A i \in WorkerIdx : (Alive(i) /\ ~workers[i].net) => workers[i].paused

\* C16: when update_toplevel_bvh runs in cr_renderer_restart_interactive, no worker is
\* in the middle of sampling a tile
C16_NoRebuildMidPass ==
    ctrl.pc = "ri_bvh" => \A i \in WorkerIdx : workers[i].pc # "sampling"

\* C17: a BVH is destroyed at most once and only while it is live, a mesh never points
\* at a destroyed BVH, and no reader holding the read lock is traversing a destroyed BVH
C17_NoUseAfterDestroy ==
    /\ [](heap.live \cap heap.destroyed = {})
    /\ [](\A m \in 1..Len(meshes) : meshes[m].bvh \notin heap.destroyed)
    /\ [](\A rd \in bvh_lock.readers : rd.bvh \notin heap.destroyed)
    /\ [][\A t \in tasks :
            (TaskDestroy(t) /\ t.old_bvh # 0) =>
               /\ t.old_bvh \in heap.live
               /\ t.old_bvh \notin heap.destroyed
               /\ \A rd \in bvh_lock.readers : rd.bvh # t.old_bvh
               /\ ctrl' = ctrl]_vars

\* C17 witness: a reader traverses the mesh's second BVH after the first, swapped out by
\* a second build, was destroyed
C17_Witness ==
    /\ heap.destroyed # {}
    /\ \E rd \in bvh_lock.readers : rd.bvh \in heap.live
    /\ Len(meshes) = 1
    /\ meshes[1].bvh \in heap.live

\* C18: the polygon data a build task reads is a snapshot fixed at cr_mesh_finalize: no
\* later bind call invalidates the storage a build that is still running reads from
C18_BuildReadsPrivateSnapshot ==
    \A t \in tasks : t.pc = "build" => ~t.items_freed

\* C19: a bind call on a valid mesh replaces the whole buffer: after
\* cr_mesh_bind_vertex_buf the vertex buffer is exactly the one bound, and after
\* cr_mesh_bind_faces with a face array the polygon list is exactly the faces bound
C19_BindReplaces ==
    [][\A m \in Handles(MaxMeshes) :
          ValidIndex(m, Len(meshes)) /\ ~HandleRejected(m, Len(meshes)) =>
             /\ \A buf \in VertexBufs :
                   cr_mesh_bind_vertex_buf(m, buf) => meshes'[m + 1].vbuf = buf
             /\ \A faces \in FaceLists :
                   cr_mesh_bind_faces(m, faces) /\ ~faces.null =>
                      meshes'[m + 1].polygons = faces.list]_vars

\* C20 (as stated): every cr_instance_set_transform call on a valid instance ends with
\* the top-level dirty flag set, for any matrix, the instance's current transform
\* included: no such call can end with the flag clear
C20_EverySetTransformSetsDirty ==
    \A i \in Handles(MaxInstances) :
       ValidIndex(i, Len(instances)) /\ ~HandleRejected(i, Len(instances)) =>
          \A M \in Matrices \cup {instances[i + 1].A} :
             ~ENABLED (cr_instance_set_transform(i, M) /\ ~top_level_dirty')

\* C20 (amended): cr_instance_new of a mesh or a sphere appends the instance and sets
\* the top-level dirty flag, of any other type it returns -1 and changes neither;
\* cr_instance_transform on a valid instance sets the flag; cr_instance_set_transform
\* on a valid instance stores the matrix and sets the flag when the matrix differs from
\* the instance's forward transform, and changes nothing (the flag keeps its value) when
\* it is equal; none of these calls clears the flag or touches the renderer
C20_DirtyFlagSetByMutations ==
    /\ [][\A type \in ObjectTypes :
            cr_instance_new(0, type) =>
               IF type \in {"mesh", "sphere"}
               THEN /\ top_level_dirty'
                    /\ Len(instances') = Len(instances) + 1
                    /\ ret'.val = Len(instances)
               ELSE /\ ret'.val = -1
                    /\ UNCHANGED <<instances, top_level_dirty>>]_vars
    /\ [][\A i \in Handles(MaxInstances), M \in Matrices :
            ValidIndex(i, Len(instances)) /\ ~HandleRejected(i, Len(instances)) =>
               /\ cr_instance_transform(i, M) => top_level_dirty'
               /\ cr_instance_set_transform(i, M) /\ instances[i + 1].A # M =>
                    top_level_dirty' /\ instances'[i + 1].A = M]_vars
    /\ [](\A i \in Handles(MaxInstances) :
            ValidIndex(i, Len(instances)) /\ ~HandleRejected(i, Len(instances)) =>
               ~ENABLED (/\ cr_instance_set_transform(i, instances[i + 1].A)
                         /\ ~UNCHANGED <<instances, top_level_dirty>>))
    /\ [][(\/ \E type \in ObjectTypes : cr_instance_new(0, type)
           \/ \E i \in Handles(MaxInstances), M \in Matrices :
                 cr_instance_set_transform(i, M) \/ cr_instance_transform(i, M)) =>
              /\ top_level_dirty => top_level_dirty'
              /\ UNCHANGED rstate]_vars

\* C20 witness: after a render rebuilt the index and cleared the flag, an instance whose
\* transform was set is handed its own transform again: the call changes nothing, so
\* this is the state before and after it, with the flag clear
C20_Witness ==
    /\ Len(instances) = 1
    /\ instances[1].A # Identity
    /\ ~top_level_dirty
    /\ CtrlIdle
    /\ ENABLED cr_instance_set_transform(0, instances[1].A)

\* C21: every access to the worker array is within bounds: each cr_renderer_toggle_pause
\* (called directly or from cr_renderer_restart_interactive) flips only entries below the
\* number of workers, and the sample-counter reset of the restart touches only entries
\* below the number of workers
C21_WorkerAccessInBounds ==
    [][/\ (\/ cr_renderer_toggle_pause
           \/ RestartEnter /\ ~RestartRefused /\ ResolutionChanged
           \/ RestartSleep /\ state_s # "rendering"
           \/ RestartResume) => ToggleCount <= Len(workers)
       /\ RestartClear => ResetCount <= Len(workers)]_vars

\* C22: under fair scheduling every call of cr_renderer_restart_interactive returns: the
\* acknowledgement wait loop ends and the final section under the tile-set lock ends
C22_RestartTerminates ==
    (ctrl.pc \in RestartPcs) ~> (CtrlIdle \/ ctrl = Crashed)

====
